---- MODULE Spec2Model ----
(***************************************************************************)
(* Model of archinstall/lib/translationhandler.py: the Language record,    *)
(* the TranslationHandler (catalog loading, completeness percentage,       *)
(* lookups, activation) and the _DeferredTranslation marker.               *)
(***************************************************************************)
EXTENDS Integers, Sequences, FiniteSets, TLC

(***************************************************************************)
(* Bounds of the model.                                                    *)
(***************************************************************************)
MaxTotal == 50       \* largest reference message count tried by SpecPct
MaxCount == 30       \* largest catalog size tried by SpecPct
MaxMarkers == 1      \* markers alive at the same time
MaxActivations == 2  \* activate calls in one run

(***************************************************************************)
(* Python values.                                                          *)
(***************************************************************************)
None == "None"

Min(a, b) == IF a <= b THEN a ELSE b
Abs(a) == IF a < 0 THEN 0 - a ELSE a

RECURSIVE Pow2(_)
Pow2(k) == IF k = 0 THEN 1 ELSE 2 * Pow2(k - 1)

(***************************************************************************)
(* IEEE-754 binary64 arithmetic, as far as line 72 uses it:                *)
(*     int((num_translations / self._total_messages) * 100)                *)
(* A positive double is <<limbs, e>>: limbs is its significand in base     *)
(* 2^13, most significant limb first, limbs[1] holding the leading bit(s)  *)
(* and limbs[2..5] the 52 bits below it; its value is                      *)
(*     (limbs[1]*2^52 + limbs[2]*2^39 + ... + limbs[5]) * 2^(e - 52).      *)
(* A quotient has limbs[1] = 1, so 53 significant bits.  The quotient is   *)
(* produced by long division and the product limb by limb with a carry, so *)
(* every intermediate integer stays below 2^31.                            *)
(***************************************************************************)
LimbBits == 13
Limb == 8192          \* 2^LimbBits
NLimbs == 5           \* 1 + 52 / LimbBits

\* floor(log2(a / b)) for a, b > 0
RECURSIVE ExpUp(_, _, _)
ExpUp(a, b, e) == IF 2 * b <= a THEN ExpUp(a, 2 * b, e + 1) ELSE e
RECURSIVE ExpDown(_, _, _)
ExpDown(a, b, e) == IF a < b THEN ExpDown(2 * a, b, e - 1) ELSE e
Exponent(a, b) == IF a >= b THEN ExpUp(a, b, 0) ELSE ExpDown(a, b, 0)

\* number of bits of n > 0
RECURSIVE BitLen(_)
BitLen(n) == IF n <= 1 THEN 1 ELSE 1 + BitLen(n \div 2)

\* long division: k more base-2^13 digits of rem / B (rem < B), and the remainder
RECURSIVE DivDigits(_, _, _, _)
DivDigits(rem, B, k, acc) ==
    IF k = 0 THEN <<acc, rem>>
    ELSE DivDigits((rem * Limb) % B, B, k - 1, Append(acc, (rem * Limb) \div B))

\* limbs + inc at limb i, the carry running into the limbs above
RECURSIVE AddAt(_, _, _)
AddAt(limbs, i, inc) ==
    LET t == limbs[i] + inc
    IN  IF i = 1 \/ t < Limb THEN [limbs EXCEPT ![i] = t]
        ELSE AddAt([limbs EXCEPT ![i] = t - Limb], i - 1, 1)

\* a / b rounded to nearest, ties to even (a, b > 0)
FloatDiv(a, b) ==
    LET e == Exponent(a, b)
        A == IF e < 0 THEN a * Pow2(0 - e) ELSE a
        B == IF e > 0 THEN b * Pow2(e) ELSE b
        d == DivDigits(A - B, B, NLimbs - 1, <<1>>)
        limbs == d[1]
        rem == d[2]
        up == \/ 2 * rem > B
              \/ 2 * rem = B /\ limbs[NLimbs] % 2 = 1
    IN  <<IF up THEN AddAt(limbs, NLimbs, 1) ELSE limbs, e>>

\* the exact product limbs * m (0 < m < 2^13); the top limb takes the carry
RECURSIVE MulLimbs(_, _, _, _, _)
MulLimbs(limbs, m, i, carry, acc) ==
    LET t == m * limbs[i] + carry
    IN  IF i = 1 THEN <<t>> \o acc
        ELSE MulLimbs(limbs, m, i - 1, t \div Limb, <<t % Limb>> \o acc)

\* x * m rounded to 53 significant bits, to nearest, ties to even
FloatMul(x, m) ==
    LET prod == MulLimbs(x[1], m, NLimbs, 0, <<>>)
        drop == BitLen(prod[1]) - 1
        step == Pow2(drop)
        low == prod[NLimbs]
        lost == low % step
        kept == [prod EXCEPT ![NLimbs] = low - lost]
        up == /\ drop > 0
              /\ \/ 2 * lost > step
                 \/ 2 * lost = step /\ (low \div step) % 2 = 1
    IN  <<IF up THEN AddAt(kept, NLimbs, step) ELSE kept, x[2]>>

\* int(x) for a positive double: the part of the significand left of the
\* binary point (e <= 9 keeps the arithmetic below 2^31)
FloatToInt(x) ==
    IF x[2] < 0 THEN x[1][1] \div Pow2(0 - x[2])
    ELSE ((x[1][1] * Limb + x[1][2]) * Pow2(x[2])) \div Limb

\* int((num / total) * 100), total # 0; int() truncates towards zero
IntPercent(num, total) ==
    IF num = 0 THEN 0
    ELSE LET p == FloatToInt(FloatMul(FloatDiv(num, Abs(total)), 100))
         IN  IF total < 0 THEN 0 - p ELSE p

\* the outcome of a Python call: a returned value or a raised exception
Return(v) == [exc |-> None, val |-> v]
Raise(e) == [exc |-> e, val |-> 0]

\* lines 68-74; the division of line 72 raises ZeroDivisionError
Percent(abbr, num, total) ==
    IF abbr = "en" THEN Return(100)
    ELSE IF total = 0 THEN Raise("ZeroDivisionError")
    ELSE Return(Min(100, IntPercent(num, total)))

(***************************************************************************)
(* The files under the locales directory.                                  *)
(*   potFile        base.pot, a sequence of lines, a line a sequence of    *)
(*                  characters                                             *)
(*   languagesJson  languages.json, a sequence of mapping entries          *)
(*   dirList        os.listdir(locales_dir), names in enumeration order    *)
(*   moFiles        <dir>/LC_MESSAGES/base.mo for each directory name:     *)
(*                  NoValue when there is no such file, else Some(catalog) *)
(* A catalog is a function from message ids to translations; the id ""     *)
(* carries the header of the .mo file.                                     *)
(***************************************************************************)
NoValue == <<>>
Some(v) == <<v>>

Messages == {"", "Hello", "Bye"}

MsgidLine == <<"m", "s", "g", "i", "d", " ", "x">>
MsgstrLine == <<"m", "s", "g", "s", "t", "r", " ", "y">>
CommentLine == <<"#", " ", "m", "s", "g", "i", "d", "s">>
BlankLine == <<>>

Header == "Project-Id-Version: base"
CatEn == [m \in {""} |-> Header]
CatDe == [m \in {"", "Hello", "Bye"} |->
             IF m = "" THEN Header ELSE IF m = "Hello" THEN "Hallo" ELSE ""]
CatBr == [m \in {"Bye"} |-> "Tchau"]
CatPt == [m \in {"", "Hello", "Bye"} |->
             IF m = "" THEN Header ELSE IF m = "Hello" THEN "Ola" ELSE "Adeus"]
CatZh == [m \in {"", "Hello"} |-> IF m = "" THEN Header ELSE "Nihao"]

MoDirs == {"en", "de", "pt_BR", "pt", "zh-CN"}

Entry(a, l, t) == [abbr |-> a, lang |-> l, translated_lang |-> t]
MapEn == Entry("en", "English", None)
MapDe == Entry("de", "German", "Deutsch")
MapBr == Entry("pt_BR", "Brazilian Portuguese", "Portugues do Brasil")
MapBrGerman == Entry("pt_BR", "German", None)
MapZh == Entry("zh-CN", "Chinese (Simplified)", None)
MapDeDutch == Entry("de", "Dutch", None)

VARIABLES potFile, languagesJson, dirList, moFiles

\* the state of the module: position of the import, the handler's
\* attributes, the locals of _get_translations, builtins._ and the markers
VARIABLES pc, error, total_messages, translated_languages,
          mappings, defined_languages, languages, idx,
          builtins_, markers, ret

\* history: activate calls so far, the language of the last one, and for
\* each marker the number of activate calls that preceded its creation
VARIABLES nActivate, lastActivated, born

files == <<potFile, languagesJson, dirList, moFiles>>
handler == <<pc, error, total_messages, translated_languages,
             mappings, defined_languages, languages, idx>>
history == <<nActivate, lastActivated, born>>
vars == <<files, handler, builtins_, markers, ret, history>>

(***************************************************************************)
(* Pure parts of the handler.                                              *)
(***************************************************************************)
\* 'msgid' in line
ContainsMsgid(line) ==
    \E i \in 1..(Len(line) - 4) :
        SubSeq(line, i, i + 4) = <<"m", "s", "g", "i", "d">>

\* _get_total_active_messages
GetTotalActiveMessages(lines) ==
    Len(SelectSeq(lines, ContainsMsgid)) - 1

\* line 156 without its list of regional codes
QualifiesTwoChars(filename) == Len(filename) = 2

\* the test of line 156
Qualifies(filename) ==
    Len(filename) = 2 \/ filename \in {"pt_BR", "zh-CN", "zh-TW"}

\* _provided_translations
ProvidedTranslations(filenames) == SelectSeq(filenames, Qualifies)

\* _get_catalog_size: entries whose key and value are both non-empty
GetCatalogSize(catalog) ==
    Cardinality({k \in DOMAIN catalog : k # "" /\ catalog[k] # ""})

\* gettext._expand_lang, restricted to the names a directory of MoDirs can
\* answer to: the locale aliases of the English names, and language without
\* territory
ExpandLang(l) ==
    IF l = "pt_BR" THEN <<"pt_BR", "pt">>
    ELSE IF l = "English" THEN <<"en">>
    ELSE IF l = "German" THEN <<"de">>
    ELSE IF l = "Dutch" THEN <<"nl">>
    ELSE <<l>>

RECURSIVE Dedup(_, _)
Dedup(s, acc) ==
    IF s = <<>> THEN acc
    ELSE IF \E i \in 1..Len(acc) : acc[i] = Head(s) THEN Dedup(Tail(s), acc)
         ELSE Dedup(Tail(s), Append(acc, Head(s)))

\* gettext.translation('base', localedir, languages=(abbr, lang)): the
\* catalogs found, the first one with the others chained as its fallbacks;
\* none found raises FileNotFoundError
Translation(mo, abbr, lang) ==
    LET names == Dedup(ExpandLang(abbr) \o ExpandLang(lang), <<>>)
        found == SelectSeq(names, LAMBDA d : d \in DOMAIN mo /\ mo[d] # NoValue)
    IN  IF found = <<>> THEN Raise("FileNotFoundError")
        ELSE Return([i \in 1..Len(found) |-> mo[found[i]][1]])

\* GNUTranslations.gettext on a translation with its fallback chain: the
\* value the first catalog holds for the message, the empty string included,
\* is returned as it is; only a missing key goes on to the fallback (plural
\* keys are not modelled)
RECURSIVE Gettext(_, _)
Gettext(translation, message) ==
    IF translation = <<>> THEN message
    ELSE IF message \in DOMAIN Head(translation) THEN Head(translation)[message]
    ELSE Gettext(Tail(translation), message)

Language(abbr, name_en, translation, percent, translated_lang) ==
    [abbr |-> abbr, name_en |-> name_en, translation |-> translation,
     translation_percent |-> percent, translated_lang |-> translated_lang]

\* one pass of the loop body of _get_translations (lines 58-79); every
\* mapping entry is taken to carry the keys 'abbr' and 'lang'
LoadLanguage(maps, mo, total, short_form) ==
    LET hits == SelectSeq(maps, LAMBDA x : x.abbr = short_form)
    IN  IF hits = <<>> THEN Raise("StopIteration")
        ELSE LET entry == Head(hits)
                 t == Translation(mo, entry.abbr, entry.lang)
             IN  IF t.exc # None THEN Raise("FileNotFoundError")
                 ELSE LET p == Percent(entry.abbr, GetCatalogSize(t.val[1]), total)
                      IN  IF p.exc # None THEN Raise(p.exc)
                          ELSE Return(Language(entry.abbr, entry.lang, t.val,
                                               p.val, entry.translated_lang))

(***************************************************************************)
(* Import of the module: line 180 has installed _DeferredTranslation as    *)
(* builtins._, line 183 constructs the handler (lines 37-42).              *)
(***************************************************************************)
DeferredClass == [kind |-> "_DeferredTranslation", translation |-> <<>>]
BoundGettext(t) == [kind |-> "gettext", translation |-> t]

NoRet == [op |-> "none", arg |-> "", idx |-> 0, exc |-> None, lang |-> NoValue,
          text |-> "", flag |-> FALSE, list |-> <<>>, epoch |-> 0]

Start ==
    /\ pc = "total"
    /\ error = None
    /\ total_messages = NoValue
    /\ translated_languages = NoValue
    /\ mappings = <<>>
    /\ defined_languages = <<>>
    /\ languages = <<>>
    /\ idx = 0
    /\ builtins_ = DeferredClass
    /\ markers = <<>>
    /\ ret = NoRet
    /\ nActivate = 0
    /\ lastActivated = NoValue
    /\ born = <<>>

\* line 41
GetTotal ==
    /\ pc = "total"
    /\ total_messages' = Some(GetTotalActiveMessages(potFile))
    /\ pc' = "translations"
    /\ UNCHANGED <<files, error, translated_languages, mappings,
                   defined_languages, languages, idx, builtins_, markers,
                   ret, history>>

\* lines 52-55
BeginTranslations ==
    /\ pc = "translations"
    /\ mappings' = languagesJson
    /\ defined_languages' = ProvidedTranslations(dirList)
    /\ languages' = <<>>
    /\ idx' = 1
    /\ pc' = "loop"
    /\ UNCHANGED <<files, error, total_messages, translated_languages,
                   builtins_, markers, ret, history>>

\* lines 57-79 with a loop body that passes over a language it cannot load
LoopBodySkip ==
    /\ pc = "loop"
    /\ idx <= Len(defined_languages)
    /\ LET r == LoadLanguage(mappings, moFiles, total_messages[1],
                             defined_languages[idx])
       IN  languages' = IF r.exc # None THEN languages
                        ELSE Append(languages, r.val)
    /\ idx' = idx + 1
    /\ UNCHANGED <<files, pc, error, total_messages, translated_languages,
                   mappings, defined_languages, builtins_, markers, ret,
                   history>>

\* lines 57-79: one language; an exception leaves __init__ and the import
LoopBody ==
    /\ pc = "loop"
    /\ idx <= Len(defined_languages)
    /\ LET r == LoadLanguage(mappings, moFiles, total_messages[1],
                             defined_languages[idx])
       IN  IF r.exc # None
           THEN /\ pc' = "failed"
                /\ error' = r.exc
                /\ UNCHANGED <<languages, idx>>
           ELSE /\ languages' = Append(languages, r.val)
                /\ idx' = idx + 1
                /\ UNCHANGED <<pc, error>>
    /\ UNCHANGED <<files, total_messages, translated_languages, mappings,
                   defined_languages, builtins_, markers, ret, history>>

\* line 81 and the assignment of line 42
ReturnTranslations ==
    /\ pc = "loop"
    /\ idx > Len(defined_languages)
    /\ translated_languages' = Some(languages)
    /\ pc' = "ready"
    /\ UNCHANGED <<files, error, total_messages, mappings, defined_languages,
                   languages, idx, builtins_, markers, ret, history>>

Load == GetTotal \/ BeginTranslations \/ LoopBody \/ ReturnTranslations

(***************************************************************************)
(* The operations on the loaded handler.  A failed import leaves no module *)
(* to call, so every operation waits for pc = "ready".                     *)
(***************************************************************************)
Registry == translated_languages[1]

\* next(filter(...)): the first hit; StopIteration becomes ValueError
LanguageByName(list, name) ==
    LET hits == SelectSeq(list, LAMBDA x : x.name_en = name)
    IN  IF hits = <<>> THEN Raise("ValueError") ELSE Return(Head(hits))

LanguageByAbbr(list, abbr) ==
    LET hits == SelectSeq(list, LAMBDA x : x.abbr = abbr)
    IN  IF hits = <<>> THEN Raise("ValueError") ELSE Return(Head(hits))

\* Language.is_match
IsMatch(l, s) == l.name_en = s \/ l.translated_lang = s

\* Language.display_name
DisplayName(l) == l.name_en \o " (" \o ToString(l.translation_percent) \o "%)"

\* _DeferredTranslation.__str__
DeferredStr(b, message) ==
    IF b = DeferredClass THEN message ELSE Gettext(b.translation, message)

NameInputs == {"English", "German", "Deutsch", "Nonexistent"}
AbbrInputs == {"en", "de", "pt_BR", "xx"}

Result(op, arg, i) == [NoRet EXCEPT !.op = op, !.arg = arg, !.idx = i,
                                    !.epoch = nActivate]

ReadOnly == UNCHANGED <<files, handler, builtins_, markers, history>>

TranslatedLanguages ==
    /\ pc = "ready"
    /\ ret' = [Result("translated_languages", "", 0) EXCEPT !.list = Registry]
    /\ ReadOnly

GetLanguageByName ==
    /\ pc = "ready"
    /\ \E name \in NameInputs :
         LET r == LanguageByName(Registry, name)
         IN  ret' = [Result("get_language_by_name", name, 0) EXCEPT
                       !.exc = r.exc,
                       !.lang = IF r.exc = None THEN Some(r.val) ELSE NoValue]
    /\ ReadOnly

GetLanguageByAbbr ==
    /\ pc = "ready"
    /\ \E abbr \in AbbrInputs :
         LET r == LanguageByAbbr(Registry, abbr)
         IN  ret' = [Result("get_language_by_abbr", abbr, 0) EXCEPT
                       !.exc = r.exc,
                       !.lang = IF r.exc = None THEN Some(r.val) ELSE NoValue]
    /\ ReadOnly

IsMatchCall ==
    /\ pc = "ready"
    /\ \E i \in 1..Len(Registry), s \in NameInputs :
         ret' = [Result("is_match", s, i) EXCEPT !.flag = IsMatch(Registry[i], s)]
    /\ ReadOnly

DisplayNameCall ==
    /\ pc = "ready"
    /\ \E i \in 1..Len(Registry) :
         ret' = [Result("display_name", "", i) EXCEPT
                   !.text = DisplayName(Registry[i])]
    /\ ReadOnly

\* activate that installs a translation only while none is installed
ActivateFirstOnly ==
    /\ pc = "ready"
    /\ nActivate < MaxActivations
    /\ \E i \in 1..Len(Registry) :
         /\ builtins_' = IF builtins_ = DeferredClass
                         THEN BoundGettext(Registry[i].translation)
                         ELSE builtins_
         /\ lastActivated' = Some(Registry[i])
    /\ nActivate' = nActivate + 1
    /\ UNCHANGED <<files, handler, markers, ret, born>>

\* activate that also moves the activated language to the head of the list
ActivateMovesToFront ==
    /\ pc = "ready"
    /\ nActivate < MaxActivations
    /\ \E i \in 1..Len(Registry) :
         /\ builtins_' = BoundGettext(Registry[i].translation)
         /\ lastActivated' = Some(Registry[i])
         /\ translated_languages' =
                Some(<<Registry[i]>> \o SubSeq(Registry, 1, i - 1)
                                    \o SubSeq(Registry, i + 1, Len(Registry)))
    /\ nActivate' = nActivate + 1
    /\ UNCHANGED <<files, pc, error, total_messages, mappings,
                   defined_languages, languages, idx, markers, ret, born>>

\* activate: install() assigns the translation's gettext to builtins._
Activate ==
    /\ pc = "ready"
    /\ nActivate < MaxActivations
    /\ \E i \in 1..Len(Registry) :
         /\ builtins_' = BoundGettext(Registry[i].translation)
         /\ lastActivated' = Some(Registry[i])
    /\ nActivate' = nActivate + 1
    /\ UNCHANGED <<files, handler, markers, ret, born>>

\* _DeferredTranslation(message)
Mark ==
    /\ pc = "ready"
    /\ Len(markers) < MaxMarkers
    /\ \E m \in Messages : markers' = Append(markers, m)
    /\ born' = Append(born, nActivate)
    /\ UNCHANGED <<files, handler, builtins_, ret, nActivate, lastActivated>>

\* str(marker)
Str ==
    /\ pc = "ready"
    /\ \E k \in 1..Len(markers) :
         ret' = [Result("str", markers[k], k) EXCEPT
                   !.text = DeferredStr(builtins_, markers[k])]
    /\ ReadOnly

\* tr(message): a marker resolved at once
Tr ==
    /\ pc = "ready"
    /\ \E m \in Messages :
         ret' = [Result("tr", m, 0) EXCEPT !.text = DeferredStr(builtins_, m)]
    /\ ReadOnly

(***************************************************************************)
(* Specifications.  They differ in the files they start from.              *)
(***************************************************************************)
MaxDirs == 3         \* entries of the locales directory
MaxMsgids == 3       \* msgid lines of base.pot

DirNames == {"en", "de", "pt_BR", "zh-CN", "base.pot"}

RECURSIVE Listings(_)
Listings(n) ==
    IF n = 0 THEN {<<>>}
    ELSE LET shorter == Listings(n - 1)
         IN  shorter \cup
             {Append(s, d) : s \in {t \in shorter : Len(t) = n - 1},
                             d \in DirNames}

Distinct(s) == \A i, j \in 1..Len(s) : i # j => s[i] # s[j]

Pot(n) == [i \in 1..(2 * n) |-> IF i % 2 = 1 THEN MsgidLine ELSE MsgstrLine]

MapFull == <<MapEn, MapDe, MapBr, MapZh, MapDeDutch>>
MapNoDe == <<MapEn, MapBr, MapZh>>
MapSameName == <<MapEn, MapDe, MapBrGerman>>

MoWith(present) ==
    [d \in MoDirs |-> IF d \in present
                      THEN Some(CASE d = "en" -> CatEn [] d = "de" -> CatDe
                                  [] d = "pt_BR" -> CatBr [] d = "pt" -> CatPt
                                  [] OTHER -> CatZh)
                      ELSE NoValue]

MoSets == {MoWith(present \cup {"zh-CN"}) : present \in SUBSET {"en", "de", "pt_BR", "pt"}}

\* SpecLoad: the import against every combination of files
InitLoad ==
    /\ potFile \in {Pot(n) : n \in 0..MaxMsgids}
                   \cup {<<CommentLine, BlankLine>> \o Pot(1)}
    /\ languagesJson \in {MapFull, MapNoDe, MapSameName}
    /\ dirList \in {s \in Listings(MaxDirs) : Distinct(s)}
    /\ moFiles \in MoSets
    /\ Start

NextLoad == Load \/ GetLanguageByName \/ GetLanguageByAbbr

SpecLoad == InitLoad /\ [][NextLoad]_vars

\* Spec: the import of two languages, then every operation
Init ==
    /\ potFile = Pot(3)
    /\ languagesJson = MapFull
    /\ dirList = <<"base.pot", "de", "pt_BR">>
    /\ moFiles = MoWith(MoDirs)
    /\ Start

Next ==
    \/ Load
    \/ TranslatedLanguages \/ GetLanguageByName \/ GetLanguageByAbbr
    \/ IsMatchCall \/ DisplayNameCall
    \/ Activate \/ Mark \/ Str \/ Tr

Spec == Init /\ [][Next]_vars

\* SpecPct: the import of one language, for every catalog size and every
\* reference count (lines 67-74 and 103-112)
CatOfSize(c) ==
    [m \in {""} \cup {"m" \o ToString(i) : i \in 1..c} |->
        IF m = "" THEN Header ELSE "t"]

InitPct ==
    /\ potFile \in {Pot(n) : n \in 0..(MaxTotal + 1)}
    /\ languagesJson = MapFull
    /\ dirList \in {<<"en">>, <<"de">>}
    /\ moFiles \in {[d \in MoDirs |-> Some(CatOfSize(c))] : c \in 0..MaxCount}
    /\ Start

NextPct == Load

SpecPct == InitPct /\ [][NextPct]_vars

(***************************************************************************)
(* Properties.                                                             *)
(***************************************************************************)
\* the result held in ret was produced after the last activate call
Fresh(ops) == ret.op \in ops /\ ret.epoch = nActivate

\* the reference count, recomputed from base.pot
ReferenceCount ==
    Cardinality({i \in 1..Len(potFile) : ContainsMsgid(potFile[i])}) - 1

\* floor(a / b) for a >= 0 and b # 0
FloorDiv(a, b) == IF b < 0 THEN (0 - a) \div (0 - b) ELSE a \div b

\* the entries of the locales directory that name a language
IsLanguageDir(f) == Len(f) = 2 \/ f = "pt_BR" \/ f = "zh-CN" \/ f = "zh-TW"

\* the directory has a mapping entry, and the lookup of line 65 for the
\* first such entry finds a catalog
HasMapping(f) == \E k \in 1..Len(languagesJson) : languagesJson[k].abbr = f

FirstMapping(f) ==
    languagesJson[CHOOSE k \in 1..Len(languagesJson) :
                    /\ languagesJson[k].abbr = f
                    /\ \A j \in 1..(k - 1) : languagesJson[j].abbr # f]

HasCatalog(f) ==
    \E d \in MoDirs :
        /\ moFiles[d] # NoValue
        /\ \E n \in {f, FirstMapping(f).lang} :
             \E k \in 1..Len(ExpandLang(n)) : ExpandLang(n)[k] = d

\* C1: a marker resolves to its literal message while no activate call has
\* happened, and otherwise through the catalog of the language passed to
\* the most recent activate call, whenever the marker was created.
C1_ResolveThroughLastActivated ==
    Fresh({"str", "tr"}) =>
        ret.text = IF lastActivated = NoValue THEN ret.arg
                   ELSE Gettext(lastActivated[1].translation, ret.arg)

\* a marker created before any activation, resolved after the second one,
\* to a translation
C1_Witness ==
    /\ Fresh({"str"})
    /\ nActivate = 2
    /\ born[ret.idx] = 0
    /\ ret.text # ret.arg
    /\ ret.text # ""

\* C2 (as claimed): after activate(L), resolve(mark(m)) is L's non-empty
\* translation of m if there is one, and m itself if m is absent or maps to
\* the empty string.
C2_TranslationOrLiteral ==
    (Fresh({"str", "tr"}) /\ nActivate > 0) =>
        LET t == lastActivated[1].translation
            holders == SelectSeq(t, LAMBDA c : ret.arg \in DOMAIN c)
        IN  IF holders # <<>> /\ Head(holders)[ret.arg] # ""
            THEN ret.text = Head(holders)[ret.arg]
            ELSE ret.text = ret.arg

\* C3 (as claimed): every record of a loaded registry has a percentage
\* between 0 and 100.
C3_PercentInRange ==
    translated_languages # NoValue =>
        \A i \in 1..Len(Registry) :
            /\ Registry[i].translation_percent >= 0
            /\ Registry[i].translation_percent <= 100

\* C4 (as claimed): the stored percentage is 100 for 'en' and otherwise
\* min(100, floor(100 * c / N)), c the entries of the catalog whose id and
\* translation are both non-empty, N the msgid lines of base.pot minus one.
C4_PercentFormula ==
    translated_languages # NoValue =>
        \A i \in 1..Len(Registry) :
            LET cat == Registry[i].translation[1]
                c == Cardinality({m \in DOMAIN cat : m # "" /\ cat[m] # ""})
                N == ReferenceCount
            IN  IF Registry[i].abbr = "en"
                THEN Registry[i].translation_percent = 100
                ELSE /\ N # 0
                     /\ Registry[i].translation_percent
                            = Min(100, FloorDiv(100 * c, N))

\* C5 (as claimed): with a reference count of zero the load fails and
\* produces no registry, whatever the language directories are.
C5_ZeroCountIsFatal ==
    ReferenceCount = 0 => (pc # "ready" /\ translated_languages = NoValue)

\* C6: a language directory without mapping entry or without loadable
\* catalog makes the load fail: no registry is ever assigned, neither a
\* complete one nor the languages loaded before the failure, and the loop
\* never steps over such a directory.
C6_NoPartialRegistry ==
    /\ (\E i \in 1..Len(dirList) :
           /\ IsLanguageDir(dirList[i])
           /\ ~(HasMapping(dirList[i]) /\ HasCatalog(dirList[i])))
         => (translated_languages = NoValue /\ pc # "ready")
    /\ pc = "failed" => (translated_languages = NoValue /\ error # None)
    /\ pc = "loop" =>
         /\ Len(languages) = idx - 1
         /\ \A j \in 1..(idx - 1) :
              /\ HasMapping(defined_languages[j])
              /\ HasCatalog(defined_languages[j])
              /\ languages[j].abbr = defined_languages[j]

\* the load failed on a directory without mapping entry after it had
\* loaded another language
C6_Witness ==
    /\ pc = "failed"
    /\ error = "StopIteration"
    /\ Len(languages) >= 1
    /\ translated_languages = NoValue

\* C7 (as claimed): a lookup by a name or abbreviation that a record
\* carries returns that very record, for every record carrying it; a lookup
\* by any other name or abbreviation raises the not-found error.
C7_LookupReturnsRecord ==
    /\ ret.op = "get_language_by_name" =>
         IF \E i \in 1..Len(Registry) : Registry[i].name_en = ret.arg
         THEN \A i \in 1..Len(Registry) :
                Registry[i].name_en = ret.arg => ret.lang = Some(Registry[i])
         ELSE ret.exc = "ValueError"
    /\ ret.op = "get_language_by_abbr" =>
         IF \E i \in 1..Len(Registry) : Registry[i].abbr = ret.arg
         THEN \A i \in 1..Len(Registry) :
                Registry[i].abbr = ret.arg => ret.lang = Some(Registry[i])
         ELSE ret.exc = "ValueError"

\* C8 (as claimed): no two records of a loaded registry share the
\* abbreviation, and no two share the English name.
C8_UniqueKeys ==
    translated_languages # NoValue =>
        \A i, j \in 1..Len(Registry) :
            i # j => /\ Registry[i].abbr # Registry[j].abbr
                     /\ Registry[i].name_en # Registry[j].name_en

\* C9: once the load has completed no operation changes the handler (the
\* registry, its records, the reference count); only activate changes
\* builtins._, and it changes neither the markers nor anything else.
C9_RegistryReadOnly ==
    [][pc = "ready" =>
         /\ handler' = handler
         /\ files' = files
         /\ nActivate' = nActivate => builtins_' = builtins_
         /\ nActivate' # nActivate => (markers' = markers /\ ret' = ret)]_vars

\* every kind of operation has run: a marker was created and resolved
\* after an activation, on a registry of several records
C9_Witness ==
    /\ pc = "ready"
    /\ Len(Registry) >= 2
    /\ nActivate >= 1
    /\ Fresh({"str"})
    /\ ret.text # ret.arg

\* C10: the registry has one record per language directory, in the order
\* of the directory listing, each with the directory's name as abbreviation;
\* other entries of the directory give no record.
C10_OneRecordPerDirectory ==
    translated_languages # NoValue =>
        LET dirs == SelectSeq(dirList, IsLanguageDir)
        IN  /\ Len(Registry) = Len(dirs)
            /\ \A i \in 1..Len(dirs) : Registry[i].abbr = dirs[i]

\* a listing with a long regional code ahead of a two-letter code and an
\* entry that is no language directory
C10_Witness ==
    /\ pc = "ready"
    /\ Len(Registry) = 2
    /\ Registry[1].abbr \in {"pt_BR", "zh-CN"}
    /\ Len(Registry[2].abbr) = 2
    /\ \E i \in 1..Len(dirList) : dirList[i] = "base.pot"
====
